---------------------------- MODULE Spec2Model ----------------------------
(***************************************************************************)
(* Model of the NicTool SOAP client (src/NicTool/NicTool.py): the session  *)
(* handling of _make_api_call, the zone lookup find_zone, the host/zone    *)
(* split hostname_to_name_zone, the record search and the add/delete       *)
(* orchestration of forward (A) and reverse (PTR) records.                 *)
(*                                                                         *)
(* A Python string is a sequence of tokens: the token "." is the label     *)
(* separator, every other token is a non-empty piece of text that holds    *)
(* no separator.  Two pieces are never adjacent, so a string has one       *)
(* representation and '.'-based operations act on it exactly as on the     *)
(* characters.  The empty string is << >>.                                 *)
(***************************************************************************)
EXTENDS Integers, Sequences, FiniteSets, TLC

VARIABLES
    zones,               \* remote: the registered zones
    records,             \* remote: the zone records
    next_record_id,      \* remote: identifier given to the next created record
    now,                 \* wall clock, time.time()
    activity_timestamp,  \* self.activity_timestamp
    nt_user_session,     \* self.nt_user_session
    last_login,          \* remote: token handed out by the latest successful login
    login_time,          \* remote: when that token was handed out
    cache,               \* entries of the beaker cache 'nictoolcache'
    last                 \* the most recent client operation and what it did

vars == << zones, records, next_record_id, now, activity_timestamp,
           nt_user_session, last_login, login_time, cache, last >>

-----------------------------------------------------------------------------
(* Strings *)

Dot == "."

\* Python None where a string is expected; no string holds this token.
None == << "<None>" >>

\* Python truth value of an optional string.
Truthy(s) == s # None /\ s # << >>

Last(s) == s[Len(s)]
Front(s) == SubSeq(s, 1, Len(s) - 1)

\* str.rstrip('.')
RECURSIVE RStrip(_)
RStrip(s) == IF s # << >> /\ Last(s) = Dot THEN RStrip(Front(s)) ELSE s

\* str.lstrip('.')
RECURSIVE LStrip(_)
LStrip(s) == IF s # << >> /\ Head(s) = Dot THEN LStrip(Tail(s)) ELSE s

\* str.strip('.')
Strip(s) == LStrip(RStrip(s))

\* position of the first separator, 0 when there is none
FirstDot(s) ==
    IF \E i \in 1..Len(s) : s[i] = Dot
    THEN CHOOSE i \in 1..Len(s) : s[i] = Dot /\ \A j \in 1..(i - 1) : s[j] # Dot
    ELSE 0

\* str.partition('.'): the text before the first separator and the text after it
PartitionHead(s) == IF FirstDot(s) = 0 THEN s ELSE SubSeq(s, 1, FirstDot(s) - 1)
PartitionTail(s) == IF FirstDot(s) = 0 THEN << >> ELSE SubSeq(s, FirstDot(s) + 1, Len(s))

\* str.split('.'): the sequence of pieces between separators
RECURSIVE Split(_)
Split(s) ==
    IF FirstDot(s) = 0 THEN << s >>
    ELSE << PartitionHead(s) >> \o Split(PartitionTail(s))

\* str.upper() of one piece of text
UpperPiece(t) ==
    CASE t = "h" -> "H"
      [] t = "g" -> "G"
      [] t = "e" -> "E"
      [] t = "c" -> "C"
      [] t = "x" -> "X"
      [] t = "in-addr" -> "IN-ADDR"
      [] t = "arpa" -> "ARPA"
      [] OTHER -> t

\* str.upper()
Upper(s) == [i \in 1..Len(s) |-> UpperPiece(s[i])]

\* f'{a}.{b}'
Join(a, b) == a \o << Dot >> \o b

-----------------------------------------------------------------------------
(* Values *)

\* Python None where a zone or record identifier is expected (identifiers are positive).
NoId == 0

\* Python None where a record is expected.
NoRecord ==
    [nt_zone_record_id |-> NoId, nt_zone_id |-> NoId, name |-> None,
     type |-> "", address |-> None, ttl |-> 0]

\* the response of a remote call that carries no data, the shape every response extends
EmptyResponse ==
    [total |-> 0, page |-> 0, limit |-> 0, zones |-> << >>, records |-> << >>,
     nt_zone_id |-> NoId, nt_zone_record_id |-> NoId, nt_user_session |-> NoId]

\* the zones of a set as a list, in identifier order
RECURSIVE ZonesInOrder(_)
ZonesInOrder(S) ==
    IF S = {} THEN << >>
    ELSE LET m == CHOOSE x \in S : \A y \in S : x.nt_zone_id <= y.nt_zone_id
         IN  << m >> \o ZonesInOrder(S \ {m})

\* the records of a set as a list, in identifier order
RECURSIVE RecordsInOrder(_)
RecordsInOrder(S) ==
    IF S = {} THEN << >>
    ELSE LET m == CHOOSE x \in S : \A y \in S : x.nt_zone_record_id <= y.nt_zone_record_id
         IN  << m >> \o RecordsInOrder(S \ {m})

-----------------------------------------------------------------------------
(* Bounds and the inputs the operations are tried on *)

MaxTime == 1210          \* the clock stops here
MaxNewRecords == 2       \* the remote creates at most this many records
MaxFailAt == 2           \* the request of an operation that may be answered with a failure
MaxToken == 2            \* session tokens the remote hands out are 1..MaxToken

StartTime == 1000        \* time.time() when the client is constructed
TickStep == 100          \* the clock advances by this much between calls

example_com == << "e", Dot, "c" >>
EXAMPLE_com == << "E", Dot, "c" >>
com == << "c" >>
host_example_com == << "h", Dot, "e", Dot, "c" >>
other_example_com == << "g", Dot, "e", Dot, "c" >>
host_unregistered == << "h", Dot, "x" >>
arpa_3_2_1 == << "3", Dot, "2", Dot, "1", Dot, "in-addr", Dot, "arpa" >>
ip_1_2_3_4 == << "1", Dot, "2", Dot, "3", Dot, "4" >>
ip_1_2_3 == << "1", Dot, "2", Dot, "3" >>
ip_1_2_3_256 == << "1", Dot, "2", Dot, "3", Dot, "256" >>
ip_1_2_3_x == << "1", Dot, "2", Dot, "3", Dot, "x" >>

ZoneUniverse ==
    { [nt_zone_id |-> 1, zone |-> example_com],
      [nt_zone_id |-> 2, zone |-> arpa_3_2_1],
      [nt_zone_id |-> 3, zone |-> com] }

RecordUniverse ==
    { [nt_zone_record_id |-> 1, nt_zone_id |-> 1, name |-> << "h" >>, type |-> "A",
       address |-> ip_1_2_3_4, ttl |-> 3600],
      [nt_zone_record_id |-> 2, nt_zone_id |-> 1, name |-> << "h" >>, type |-> "A",
       address |-> ip_1_2_3_4, ttl |-> 3600],
      [nt_zone_record_id |-> 3, nt_zone_id |-> 2, name |-> << "4" >>, type |-> "PTR",
       address |-> host_example_com \o << Dot >>, ttl |-> 3600],
      [nt_zone_record_id |-> 4, nt_zone_id |-> 2, name |-> << "4" >>, type |-> "PTR",
       address |-> other_example_com \o << Dot >>, ttl |-> 3600] }

Hostnames ==
    { None, << >>, host_example_com, host_example_com \o << Dot >>, example_com,
      host_unregistered }

IpAddrs == { None, << >>, ip_1_2_3_4, ip_1_2_3, ip_1_2_3_256, ip_1_2_3_x }

\* addresses the delete operation is tried on
DeleteIpAddrs == { None, ip_1_2_3_4, ip_1_2_3 }

\* hostnames the add operations are tried on
AddHostnames == { None, << >>, host_example_com, example_com \o << Dot >> }

\* how long the caller of find_zone waits before it calls again
Waits == { 0, TickStep }

Usernames == { << "newuser" >>, << >> }
ZoneNames == { example_com, EXAMPLE_com, arpa_3_2_1, host_example_com, << >> }

RecordNames == { << "h" >>, << "4" >> }

RecordTypes == { "A", "PTR" }

Ttls == { 300 }

-----------------------------------------------------------------------------
(* The remote service, as the client's requests see it.                      *)
(*                                                                           *)
(* An operation is computed on a context c: the remote records, the client's *)
(* session fields, the cache, and what the operation has done so far (the    *)
(* requests sent, the warnings logged, the exception raised, the values      *)
(* returned).  e holds what the operation cannot change: the clock, the      *)
(* zones, which request the remote answers with a failure and the token the  *)
(* remote hands out on login.                                                *)

\* arguments[key] = value
SetItem(arguments, key, value) ==
    [k \in DOMAIN arguments \cup {key} |-> IF k = key THEN value ELSE arguments[k]]

Raise(c, exception) == [c EXCEPT !.raised = exception]

\* login: the remote hands out a session token
RemoteLogin(c, e) ==
    [c EXCEPT !.last_login = e.token,
              !.login_time = e.now,
              !.resp = [EmptyResponse EXCEPT !.nt_user_session = e.token]]

\* get_group_zones: one page of the zones whose name equals 0_value
RemoteGetGroupZones(c, e, arguments) ==
    LET found == { z \in e.zones : Upper(z.zone) = Upper(arguments.0_value) }
        all == ZonesInOrder(found)
        first == arguments.start + 1
        end == IF arguments.start + arguments.limit < Len(all)
               THEN arguments.start + arguments.limit ELSE Len(all)
    IN  [c EXCEPT !.resp =
            [EmptyResponse EXCEPT
                !.total = Len(all),
                !.page = (arguments.start \div arguments.limit) + 1,
                !.limit = arguments.limit,
                !.zones = SubSeq(all, first, end),
                !.nt_zone_id = IF Len(all) = 1 THEN all[1].nt_zone_id ELSE NoId]]

\* get_zone_records: the records of a zone with the given type and name
RemoteGetZoneRecords(c, e, arguments) ==
    LET found == { r \in c.records : /\ r.nt_zone_id = arguments.nt_zone_id
                                     /\ r.type = arguments.0_value
                                     /\ r.name = arguments.1_value }
    IN  [c EXCEPT !.resp = [EmptyResponse EXCEPT !.total = Cardinality(found),
                                                 !.records = RecordsInOrder(found)]]

\* delete_zone_record: the record with the given identifier is removed
RemoteDeleteZoneRecord(c, e, arguments) ==
    [c EXCEPT !.records = { r \in c.records :
                              r.nt_zone_record_id # arguments.nt_zone_record_id },
              !.resp = EmptyResponse]

\* new_zone_record: a record is created and its identifier returned
RemoteNewZoneRecord(c, e, arguments) ==
    [c EXCEPT !.records = c.records \cup
                  { [nt_zone_record_id |-> c.next_record_id,
                     nt_zone_id |-> arguments.nt_zone_id,
                     name |-> arguments.name,
                     type |-> arguments.type,
                     address |-> arguments.address,
                     ttl |-> arguments.ttl] },
              !.next_record_id = c.next_record_id + 1,
              !.resp = [EmptyResponse EXCEPT !.nt_zone_record_id = c.next_record_id]]

\* new_user: the remote answers with the id of the account; accounts are no part of the
\* remote state kept here
RemoteNewUser(c, e, arguments) == [c EXCEPT !.resp = EmptyResponse]

Remote(c, e, method, arguments) ==
    CASE method = "login" -> RemoteLogin(c, e)
      [] method = "new_user" -> RemoteNewUser(c, e, arguments)
      [] method = "get_group_zones" -> RemoteGetGroupZones(c, e, arguments)
      [] method = "get_zone_records" -> RemoteGetZoneRecords(c, e, arguments)
      [] method = "delete_zone_record" -> RemoteDeleteZoneRecord(c, e, arguments)
      [] method = "new_zone_record" -> RemoteNewZoneRecord(c, e, arguments)

-----------------------------------------------------------------------------
(* _make_api_call *)

IdleLimit == 120

\* lines 88-101: the request is built and posted
Sent(c, method, arguments) ==
    [c EXCEPT !.rpcs = Append(c.rpcs, [method |-> method, arguments |-> arguments])]

\* lines 102-116: the answer is parsed; a non-success status raises
Answered(sent, e, method, arguments) ==
    IF Len(sent.rpcs) = e.fail_at
    THEN Raise([sent EXCEPT !.failed = Len(sent.rpcs)], "RequestFailed")
    ELSE Remote(sent, e, method, arguments)

PostRequest(c, e, method, arguments) ==
    Answered(Sent(c, method, arguments), e, method, arguments)

\* arguments.get('username')
HasUsername(arguments) == "username" \in DOMAIN arguments /\ Truthy(arguments.username)

\* the login test without its idle-time half: log in only when no session is held
NeedsLogin_SessionOnly(seconds_idle, session, arguments) ==
    session = NoId /\ ~HasUsername(arguments)

\* line 83
NeedsLogin(seconds_idle, session, arguments) ==
    seconds_idle > IdleLimit \/ (session = NoId /\ ~HasUsername(arguments))

\* self.login(username=..., password=..., nt_user_session=''): the nested call.  Its idle
\* time is 0 and it carries username, so it logs in no further (line 83); line 86 puts
\* the client's session, None at this point, in place of the '' it was given.
Login(c, e) ==
    PostRequest(c, e, "login",
                SetItem([username |-> << "user" >>, password |-> << "secret" >>,
                         nt_user_session |-> << >>],
                        "nt_user_session", c.nt_user_session))

\* line 85: the token of the login response becomes the session, unless login raised
AdoptSession(answered) ==
    IF answered.raised # "none" THEN answered
    ELSE [answered EXCEPT !.nt_user_session = answered.resp.nt_user_session]

\* the activity timestamp updated only by a call that logs in
EnsureSession_StampOnLoginOnly(c, e, arguments) ==
    IF NeedsLogin(e.now - c.activity_timestamp, c.nt_user_session, arguments)
    THEN AdoptSession(Login([c EXCEPT !.activity_timestamp = e.now,
                                      !.nt_user_session = NoId], e))
    ELSE c

\* lines 81-85
EnsureSession(c, e, arguments) ==
    IF NeedsLogin(e.now - c.activity_timestamp, c.nt_user_session, arguments)
    THEN AdoptSession(Login([c EXCEPT !.activity_timestamp = e.now,
                                      !.nt_user_session = NoId], e))
    ELSE [c EXCEPT !.activity_timestamp = e.now]

\* the intended request sent whether or not the login before it raised
SendWithSession_DespiteFailure(logged, e, method, arguments) ==
    PostRequest(logged, e, method,
                SetItem(arguments, "nt_user_session", logged.nt_user_session))

\* lines 86-116
SendWithSession(logged, e, method, arguments) ==
    IF logged.raised # "none" THEN logged
    ELSE PostRequest(logged, e, method,
                     SetItem(arguments, "nt_user_session", logged.nt_user_session))

MakeApiCall(c, e, method, arguments) ==
    IF c.raised # "none" THEN c
    ELSE SendWithSession(EnsureSession(c, e, arguments), e, method, arguments)

-----------------------------------------------------------------------------
(* find_zone *)

SearchLimit == 255
CacheExpire == 600

\* the loop condition with the test of zone_id inverted: search until a zone is found
FindZoneLoopGuard_UntilFound(remaining, zone_id) == remaining > 0 /\ zone_id = NoId

\* line 137: while remaining > 0 and zone_id
FindZoneLoopGuard(remaining, zone_id) == remaining > 0 /\ zone_id # NoId

\* lines 138-149
FindZoneArgs(wanted_zone, start) ==
    [Search |-> 1, nt_group_id |-> 1, include_subgroups |-> 1, exact_match |-> 1,
     quick_search |-> 0, start |-> start, limit |-> SearchLimit,
     0_field |-> "zone", 0_value |-> wanted_zone, 0_option |-> "equals"]

\* lines 154-155: the zones of the page whose name is the wanted one, ignoring case
PageMatches(page_zones, wanted_zone) ==
    { i \in 1..Len(page_zones) : Upper(page_zones[i].zone) = Upper(wanted_zone) }

FirstOf(S) == CHOOSE i \in S : \A j \in S : i <= j

RECURSIVE FindZoneLoop(_, _, _, _, _, _)

\* lines 152-162: the page that get_group_zones answered with is examined
ExaminePage(answered, e, wanted_zone, zone_id) ==
    IF answered.raised # "none" THEN answered
    ELSE IF PageMatches(answered.resp.zones, wanted_zone) # {}
    THEN [answered EXCEPT !.zone_id =
             answered.resp.zones[FirstOf(PageMatches(answered.resp.zones,
                                                     wanted_zone))].nt_zone_id]
    ELSE FindZoneLoop(answered, e, wanted_zone,
                      IF answered.resp.total = 1 THEN answered.resp.nt_zone_id
                                                 ELSE zone_id,
                      answered.resp.page * answered.resp.limit,
                      answered.resp.total - answered.resp.page * answered.resp.limit)

\* lines 137-164: the loop from one test of its condition on, and the raise after it
FindZoneLoop(c, e, wanted_zone, zone_id, start, remaining) ==
    IF ~FindZoneLoopGuard(remaining, zone_id) THEN Raise(c, "ZoneNotFound")
    ELSE ExaminePage(MakeApiCall(c, e, "get_group_zones",
                                 FindZoneArgs(wanted_zone, start)),
                     e, wanted_zone, zone_id)

\* lines 133-164, the function under the decorator
FindZoneBody(c, e, wanted_zone) == FindZoneLoop(c, e, wanted_zone, NoId, 0, 1)

\* line 126, @CACHE.cache('nictoolcache', expire=600): an entry younger than the expiry
\* answers the call; otherwise the function runs and its return value, if it returns,
\* is stored under the argument
CacheEntries(c, e, key) ==
    { x \in c.cache : x.key = key /\ e.now < x.storedtime + CacheExpire }

CacheHit(c, entries) == [c EXCEPT !.zone_id = (CHOOSE x \in entries : TRUE).value]

CacheStore(computed, e, key) ==
    IF computed.raised # "none" THEN computed
    ELSE [computed EXCEPT
             !.cache = { x \in computed.cache : x.key # key } \cup
                       { [key |-> key, value |-> computed.zone_id,
                          storedtime |-> e.now] }]

find_zone(c, e, wanted_zone) ==
    IF c.raised # "none" THEN c
    ELSE IF CacheEntries(c, e, wanted_zone) # {}
    THEN CacheHit(c, CacheEntries(c, e, wanted_zone))
    ELSE CacheStore(FindZoneBody(c, e, wanted_zone), e, wanted_zone)

-----------------------------------------------------------------------------
(* find_record_in_zone, delete_record_from_zone *)

\* lines 170-181
FindRecordArgs(zone_id, record, record_type) ==
    [Search |-> 1, nt_zone_id |-> zone_id, 0_field |-> "type", 0_value |-> record_type,
     0_option |-> "equals", 1_inclusive |-> "And", 1_field |-> "name",
     1_value |-> record, 1_option |-> "equals", exact_match |-> 1]

\* lines 170-182: the zone is resolved; its records are searched
SearchRecords(resolved, e, record, record_type) ==
    IF resolved.raised # "none" THEN resolved
    ELSE MakeApiCall(resolved, e, "get_zone_records",
                     FindRecordArgs(resolved.zone_id, record, record_type))

find_record_in_zone(c, e, zone, record, record_type) ==
    SearchRecords(find_zone(c, e, zone), e, record, record_type)

\* line 199: the record the search had found is returned, unless the delete raised
ReturnRecord(deleted, record) ==
    IF deleted.raised # "none" THEN deleted ELSE [deleted EXCEPT !.record = record]

\* lines 187-199: the search has answered
DeleteFound(found, e) ==
    IF found.raised # "none" THEN found
    ELSE IF found.resp.total < 1 THEN [found EXCEPT !.record = NoRecord]
    ELSE IF found.resp.total > 1
    THEN [found EXCEPT !.warnings = found.warnings + 1, !.record = NoRecord]
    ELSE ReturnRecord(MakeApiCall(found, e, "delete_zone_record",
                                  [nt_zone_record_id |->
                                       found.resp.records[1].nt_zone_record_id]),
                      found.resp.records[1])

delete_record_from_zone(c, e, zone, record, record_type) ==
    DeleteFound(find_record_in_zone(c, e, zone, record, record_type), e)

-----------------------------------------------------------------------------
(* check_ip_addr, ip_to_arpa *)

\* the decimal digits of a piece of text, << >> when it holds anything but digits
DecimalDigits(t) ==
    CASE t = "1" -> << 1 >>
      [] t = "2" -> << 2 >>
      [] t = "3" -> << 3 >>
      [] t = "4" -> << 4 >>
      [] t = "256" -> << 2, 5, 6 >>
      [] OTHER -> << >>

RECURSIVE DecimalValue(_)
DecimalValue(digits) ==
    IF digits = << >> THEN 0 ELSE 10 * DecimalValue(Front(digits)) + Last(digits)

\* ipaddress.IPv4Address on one octet: not empty, decimal digits only, at most three of
\* them, no leading zero, at most 255
ValidOctet(piece) ==
    /\ Len(piece) = 1
    /\ Len(DecimalDigits(piece[1])) \in 1..3
    /\ ~(Len(DecimalDigits(piece[1])) > 1 /\ DecimalDigits(piece[1])[1] = 0)
    /\ DecimalValue(DecimalDigits(piece[1])) <= 255

\* lines 202-207: IPv4Address(ipaddr) does not raise AddressValueError
check_ip_addr(ipaddr) ==
    Len(Split(ipaddr)) = 4 /\ \A i \in 1..4 : ValidOctet(Split(ipaddr)[i])

\* line 212: a, b, c, d = ipaddr.split(".") raises ValueError unless there are four pieces
IpToArpaRaises(ipaddr) == Len(Split(ipaddr)) # 4

\* line 213: d
IpToArpaName(ipaddr) == Split(ipaddr)[4]

\* line 213: f'{c}.{b}.{a}.in-addr.arpa'
ArpaZoneOf(p) == Join(Join(Join(p[3], p[2]), p[1]), << "in-addr", Dot, "arpa" >>)

IpToArpaZone(ipaddr) == ArpaZoneOf(Split(ipaddr))

-----------------------------------------------------------------------------
(* hostname_to_name_zone *)

RECURSIVE HostnameLoop(_, _, _, _)

\* lines 221-225: find_zone has answered for fqdn
HostnameStep(resolved, e, fqdn, name) ==
    IF resolved.raised # "none" THEN resolved
    ELSE IF resolved.zone_id # NoId
    THEN [resolved EXCEPT !.name = Strip(name), !.zone = fqdn]
    ELSE HostnameLoop(resolved, e, PartitionTail(fqdn), Join(name, PartitionHead(fqdn)))

\* lines 219-226: the loop from one test of fqdn on, and the return after it
HostnameLoop(c, e, fqdn, name) ==
    IF fqdn = << >> THEN [c EXCEPT !.name = Strip(name), !.zone = fqdn]
    ELSE HostnameStep(find_zone(c, e, fqdn), e, fqdn, name)

hostname_to_name_zone(c, e, hostname) == HostnameLoop(c, e, RStrip(hostname), << >>)

-----------------------------------------------------------------------------
(* delete_forward_and_reverse_records *)

\* lines 239-244: the reverse record is deleted when it names the hostname.  The response
\* object is taken to be true whatever it holds, so an empty list of records is indexed.
DeleteMatchingReverse(found, e, hostname, zone, name) ==
    IF found.raised # "none" THEN found
    ELSE IF found.resp.records = << >> THEN Raise(found, "IndexError")
    ELSE IF RStrip(found.resp.records[1].address) # hostname
    THEN [found EXCEPT !.warnings = found.warnings + 1]
    ELSE delete_record_from_zone(found, e, zone, name, "PTR")

\* lines 236-244: the A record, if one was deleted, has its reverse record looked up
DeleteReverseOf(deleted, e, hostname) ==
    IF deleted.raised # "none" \/ deleted.record = NoRecord THEN deleted
    ELSE IF IpToArpaRaises(deleted.record.address) THEN Raise(deleted, "ValueError")
    ELSE DeleteMatchingReverse(
             find_record_in_zone(deleted, e, IpToArpaZone(deleted.record.address),
                                 IpToArpaName(deleted.record.address), "PTR"),
             e, hostname, IpToArpaZone(deleted.record.address),
             IpToArpaName(deleted.record.address))

\* line 235
DeleteForward(split, e) ==
    IF split.raised # "none" THEN split
    ELSE delete_record_from_zone(split, e, split.zone, split.name, "A")

\* lines 233-244
DeleteByHostname(c, e, hostname) ==
    DeleteReverseOf(DeleteForward(hostname_to_name_zone(c, e, hostname), e), e, hostname)

\* lines 249-251: the PTR record, if one was deleted, has the A record of hostname deleted
DeleteForwardOf(deleted, e, hostname) ==
    IF deleted.raised # "none" \/ deleted.record = NoRecord THEN deleted
    ELSE IF hostname = None THEN Raise(deleted, "AttributeError")
    ELSE delete_record_from_zone(deleted, e, PartitionTail(RStrip(hostname)),
                                 PartitionHead(RStrip(hostname)), "A")

\* lines 246-251
DeleteByIp(c, e, hostname, ip) ==
    IF c.raised # "none" \/ ~Truthy(ip) THEN c
    ELSE IF IpToArpaRaises(ip) THEN Raise(c, "ValueError")
    ELSE DeleteForwardOf(
             delete_record_from_zone(c, e, IpToArpaZone(ip), IpToArpaName(ip), "PTR"),
             e, hostname)

delete_forward_and_reverse_records(c, e, hostname, ip) ==
    DeleteByIp(IF Truthy(hostname) THEN DeleteByHostname(c, e, hostname) ELSE c,
               e, hostname, ip)

-----------------------------------------------------------------------------
(* add_record_to_zone, add_forward_and_reverse_records, add_forward_record,    *)
(* add_reverse_record                                                         *)

DefaultWeight == 10

\* lines 256-265; weight is added for MX records only
AdditionArgs(zone_id, record, record_type, address, ttl, weight) ==
    IF record_type = "MX"
    THEN [nt_zone_id |-> zone_id, nt_zone_record_id |-> << >>, name |-> record,
          type |-> record_type, address |-> address, ttl |-> ttl, weight |-> weight]
    ELSE [nt_zone_id |-> zone_id, nt_zone_record_id |-> << >>, name |-> record,
          type |-> record_type, address |-> address, ttl |-> ttl]

\* lines 256-269: the zone is resolved; the record is created
CreateRecord(resolved, e, record, record_type, address, ttl) ==
    IF resolved.raised # "none" THEN resolved
    ELSE MakeApiCall(resolved, e, "new_zone_record",
                     AdditionArgs(resolved.zone_id, record, record_type, address, ttl,
                                  DefaultWeight))

add_record_to_zone(c, e, zone, record, record_type, address, ttl) ==
    CreateRecord(find_zone(c, e, zone), e, record, record_type, address, ttl)

\* the early return without the check of the address syntax
AddReturnsEarly_NoSyntaxCheck(hostname, ipaddr) == ~Truthy(hostname) \/ ~Truthy(ipaddr)

\* lines 273-276, the same in the three add operations: return without acting
AddReturnsEarly(hostname, ipaddr) ==
    \/ ~Truthy(hostname) \/ ~Truthy(ipaddr)
    \/ (Truthy(ipaddr) /\ ~check_ip_addr(ipaddr))

\* line 278
AddForwardIn(split, e, ipaddr, ttl) ==
    IF split.raised # "none" THEN split
    ELSE add_record_to_zone(split, e, split.zone, split.name, "A", ipaddr, ttl)

\* lines 277-278
AddForward(c, e, hostname, ipaddr, ttl) ==
    AddForwardIn(hostname_to_name_zone(c, e, hostname), e, ipaddr, ttl)

\* lines 279-280
AddReverse(c, e, hostname, ipaddr, ttl) ==
    IF c.raised # "none" THEN c
    ELSE IF IpToArpaRaises(ipaddr) THEN Raise(c, "ValueError")
    ELSE add_record_to_zone(c, e, IpToArpaZone(ipaddr), IpToArpaName(ipaddr), "PTR",
                            hostname \o << Dot >>, ttl)

add_forward_and_reverse_records(c, e, hostname, ipaddr, ttl) ==
    IF AddReturnsEarly(hostname, ipaddr) THEN c
    ELSE AddReverse(AddForward(c, e, hostname, ipaddr, ttl), e, hostname, ipaddr, ttl)

add_forward_record(c, e, hostname, ipaddr, ttl) ==
    IF AddReturnsEarly(hostname, ipaddr) THEN c
    ELSE AddForward(c, e, hostname, ipaddr, ttl)

add_reverse_record(c, e, hostname, ipaddr, ttl) ==
    IF AddReturnsEarly(hostname, ipaddr) THEN c
    ELSE AddReverse(c, e, hostname, ipaddr, ttl)

-----------------------------------------------------------------------------
(* create_new_user, called without permissions *)

\* lines 378-387
NewUserArgs(username) ==
    [nt_group_id |-> 1, email |-> << "newuser@example" >>, username |-> username,
     password |-> << "secret" >>, password2 |-> << "secret" >>, first_name |-> << >>,
     last_name |-> << >>, inherit_group_permissions |-> FALSE]

\* lines 391-392: self.new_user(parameters)
create_new_user(c, e, username) == MakeApiCall(c, e, "new_user", NewUserArgs(username))

-----------------------------------------------------------------------------
(* The state machine: one action per public operation of the client *)

\* an operation starts on the current state, having done nothing yet
Start ==
    [records |-> records, next_record_id |-> next_record_id,
     activity_timestamp |-> activity_timestamp, nt_user_session |-> nt_user_session,
     last_login |-> last_login, login_time |-> login_time, cache |-> cache,
     rpcs |-> << >>, failed |-> 0, warnings |-> 0, raised |-> "none",
     resp |-> EmptyResponse,
     zone_id |-> NoId, name |-> None, zone |-> None, record |-> NoRecord]

\* the surroundings of an operation that runs at time t
EnvAt(t, fail_at, token) ==
    [now |-> t, zones |-> zones, fail_at |-> fail_at, token |-> token]

Env(fail_at, token) == EnvAt(now, fail_at, token)

\* the arguments of an operation; the ones it does not take are left at None
NoInput ==
    [hostname |-> None, ip |-> None, zone |-> None, record |-> None, record_type |-> "",
     ttl |-> 0, method |-> "", arguments |-> << >>]

\* the call before the last one, when the caller made the last call on its result
NoPrevious == [op |-> "none"]

\* no operation is running: the client is constructed, or the caller has the result of
\* its last call
Idle ==
    [op |-> "idle", input |-> NoInput,
     before |-> [records |-> {}, now |-> 0, activity_timestamp |-> 0,
                 nt_user_session |-> NoId, cache |-> {}],
     rpcs |-> << >>, failed |-> 0, warnings |-> 0, raised |-> "none", zone_id |-> NoId,
     name |-> None, zone |-> None, record |-> NoRecord, previous |-> NoPrevious]

FirstNewId == Cardinality(RecordUniverse) + 1

\* the operation op, called with input at time t, has run to its end c: its effects
\* become the state; previous is the call on whose result the caller made this one
FinishAfter(op, input, c, t, previous) ==
    /\ c.next_record_id <= FirstNewId + MaxNewRecords
    /\ records' = c.records
    /\ next_record_id' = c.next_record_id
    /\ activity_timestamp' = c.activity_timestamp
    /\ nt_user_session' = c.nt_user_session
    /\ last_login' = c.last_login
    /\ login_time' = c.login_time
    /\ cache' = c.cache
    /\ now' = t
    /\ last' = [op |-> op, input |-> input,
                before |-> [records |-> records, now |-> t,
                            activity_timestamp |-> activity_timestamp,
                            nt_user_session |-> nt_user_session, cache |-> cache],
                rpcs |-> c.rpcs, failed |-> c.failed, warnings |-> c.warnings,
                raised |-> c.raised, zone_id |-> c.zone_id, name |-> c.name,
                zone |-> c.zone, record |-> c.record, previous |-> previous]
    /\ UNCHANGED zones

\* the operation op, called with input now, has run to its end c
Finish(op, input, c) == FinishAfter(op, input, c, now, NoPrevious)

\* what the caller keeps of the last call when it makes the next one on its result
Previous ==
    [op |-> last.op, input |-> last.input, now |-> last.before.now,
     records |-> last.before.records, rpcs |-> last.rpcs, raised |-> last.raised,
     zone_id |-> last.zone_id]

Failures == 0..MaxFailAt
Tokens == 1..MaxToken

Init ==
    /\ zones \in { ZoneUniverse, { z \in ZoneUniverse : z.zone # arpa_3_2_1 } }
    /\ records \in SUBSET { r \in RecordUniverse :
                              \E z \in zones : z.nt_zone_id = r.nt_zone_id }
    /\ next_record_id = FirstNewId
    /\ now = StartTime
    /\ activity_timestamp = 0
    /\ nt_user_session = NoId
    /\ last_login = NoId
    /\ login_time = 0
    /\ cache = {}
    /\ last = Idle

\* time passes between two operations
Tick ==
    /\ last = Idle
    /\ now + TickStep <= MaxTime
    /\ now' = now + TickStep
    /\ UNCHANGED << zones, records, next_record_id, activity_timestamp,
                    nt_user_session, last_login, login_time, cache, last >>

\* the synchronous call returns: the caller has the result and the client is idle again
Return ==
    /\ last # Idle
    /\ last' = Idle
    /\ UNCHANGED << zones, records, next_record_id, now, activity_timestamp,
                    nt_user_session, last_login, login_time, cache >>

\* lines 118-124: any other attribute of the client is a remote method, called with a map
DirectCalls ==
    { [method |-> "get_group_zones", arguments |-> FindZoneArgs(example_com, 0)],
      [method |-> "delete_zone_record", arguments |-> [nt_zone_record_id |-> 1]] }

handlerFunction ==
    /\ last = Idle
    /\ \E call \in DirectCalls, fail_at \in Failures, token \in Tokens :
        Finish("__getattr__",
               [NoInput EXCEPT !.method = call.method, !.arguments = call.arguments],
               MakeApiCall(Start, Env(fail_at, token), call.method, call.arguments))

CreateNewUser ==
    /\ last = Idle
    /\ \E username \in Usernames, fail_at \in Failures, token \in Tokens :
        Finish("create_new_user", [NoInput EXCEPT !.arguments = NewUserArgs(username)],
               create_new_user(Start, Env(fail_at, token), username))

FindZone ==
    /\ last = Idle
    /\ \E wanted_zone \in ZoneNames, fail_at \in Failures, token \in Tokens :
        Finish("find_zone", [NoInput EXCEPT !.zone = wanted_zone],
               find_zone(Start, Env(fail_at, token), wanted_zone))

\* the caller of find_zone calls it once more with the same name, at once or later
FindZoneAgain ==
    /\ last.op = "find_zone"
    /\ last.previous = NoPrevious
    /\ \E wait \in Waits, fail_at \in Failures, token \in Tokens :
        /\ now + wait <= MaxTime
        /\ FinishAfter("find_zone", last.input,
                       find_zone(Start, EnvAt(now + wait, fail_at, token), last.input.zone),
                       now + wait, Previous)

HostnameToNameZone ==
    /\ last = Idle
    /\ \E hostname \in Hostnames \ {None}, fail_at \in Failures, token \in Tokens :
        Finish("hostname_to_name_zone", [NoInput EXCEPT !.hostname = hostname],
               hostname_to_name_zone(Start, Env(fail_at, token), hostname))

DeleteRecordFromZone ==
    /\ last = Idle
    /\ \E zone \in ZoneNames, record \in RecordNames, record_type \in RecordTypes,
       fail_at \in Failures, token \in Tokens :
        Finish("delete_record_from_zone",
               [NoInput EXCEPT !.zone = zone, !.record = record,
                               !.record_type = record_type],
               delete_record_from_zone(Start, Env(fail_at, token), zone, record,
                                       record_type))

DeleteForwardAndReverseRecords ==
    /\ last = Idle
    /\ \E hostname \in Hostnames, ip \in DeleteIpAddrs, fail_at \in Failures, token \in Tokens :
        Finish("delete_forward_and_reverse_records",
               [NoInput EXCEPT !.hostname = hostname, !.ip = ip],
               delete_forward_and_reverse_records(Start, Env(fail_at, token), hostname, ip))

AddForwardAndReverseRecords ==
    /\ last = Idle
    /\ \E hostname \in AddHostnames, ipaddr \in IpAddrs, ttl \in Ttls,
       fail_at \in Failures, token \in Tokens :
        Finish("add_forward_and_reverse_records",
               [NoInput EXCEPT !.hostname = hostname, !.ip = ipaddr, !.ttl = ttl],
               add_forward_and_reverse_records(Start, Env(fail_at, token), hostname,
                                               ipaddr, ttl))

\* the caller of add_forward_and_reverse_records deletes what it has added: it calls
\* delete_forward_and_reverse_records with the same hostname
DeleteAfterAdd ==
    /\ last.op = "add_forward_and_reverse_records"
    /\ \E fail_at \in Failures, token \in Tokens :
        FinishAfter("delete_forward_and_reverse_records",
                    [NoInput EXCEPT !.hostname = last.input.hostname],
                    delete_forward_and_reverse_records(Start, Env(fail_at, token),
                                                       last.input.hostname, None),
                    now, Previous)

AddForwardRecord ==
    /\ last = Idle
    /\ \E hostname \in AddHostnames, ipaddr \in IpAddrs, ttl \in Ttls,
       fail_at \in Failures, token \in Tokens :
        Finish("add_forward_record",
               [NoInput EXCEPT !.hostname = hostname, !.ip = ipaddr, !.ttl = ttl],
               add_forward_record(Start, Env(fail_at, token), hostname, ipaddr, ttl))

AddReverseRecord ==
    /\ last = Idle
    /\ \E hostname \in AddHostnames, ipaddr \in IpAddrs, ttl \in Ttls,
       fail_at \in Failures, token \in Tokens :
        Finish("add_reverse_record",
               [NoInput EXCEPT !.hostname = hostname, !.ip = ipaddr, !.ttl = ttl],
               add_reverse_record(Start, Env(fail_at, token), hostname, ipaddr, ttl))

Next ==
    \/ Tick
    \/ Return
    \/ handlerFunction
    \/ CreateNewUser
    \/ FindZone
    \/ FindZoneAgain
    \/ HostnameToNameZone
    \/ DeleteRecordFromZone
    \/ DeleteForwardAndReverseRecords
    \/ AddForwardAndReverseRecords
    \/ DeleteAfterAdd
    \/ AddForwardRecord
    \/ AddReverseRecord

Spec == Init /\ [][Next]_vars

-----------------------------------------------------------------------------
(* Properties *)

\* the remote holds a zone of this name, case ignored
Registered(zone_name) == \E z \in zones : Upper(z.zone) = Upper(zone_name)

IdOfZone(zone_name) == (CHOOSE z \in zones : Upper(z.zone) = Upper(zone_name)).nt_zone_id

\* the records of the given type and name the zone held when the last operation began
MatchedBefore(zone_name, record, record_type) ==
    { r \in last.before.records : /\ r.nt_zone_id = IdOfZone(zone_name)
                                  /\ r.type = record_type
                                  /\ r.name = record }

\* the requests of the last operation that called the given remote method, in order
RECURSIVE RequestsTo(_, _)
RequestsTo(rpcs, method) ==
    IF rpcs = << >> THEN << >>
    ELSE IF Head(rpcs).method = method
    THEN << Head(rpcs).arguments >> \o RequestsTo(Tail(rpcs), method)
    ELSE RequestsTo(Tail(rpcs), method)

\* the last operation left the client and the remote records as they were
NothingChanged ==
    /\ records = last.before.records
    /\ activity_timestamp = last.before.activity_timestamp
    /\ nt_user_session = last.before.nt_user_session
    /\ cache = last.before.cache

\* the remote answered none of the last operation's requests with a failure
NoRequestFailed == last.raised # "RequestFailed"

C2_ForwardAndMatchingReverseDeleted ==
    ( /\ last.op = "delete_forward_and_reverse_records"
      /\ last.input.hostname = host_example_com
      /\ ~Truthy(last.input.ip)
      /\ NoRequestFailed
      /\ Registered(example_com) /\ Registered(arpa_3_2_1)
      /\ Cardinality(MatchedBefore(example_com, << "h" >>, "A")) = 1
      /\ Cardinality(MatchedBefore(arpa_3_2_1, << "4" >>, "PTR")) = 1 )
    => \A a \in MatchedBefore(example_com, << "h" >>, "A"),
          p \in MatchedBefore(arpa_3_2_1, << "4" >>, "PTR") :
           /\ a \notin records
           /\ (p.address = host_example_com \o << Dot >>) => p \notin records
           /\ (p.address # host_example_com \o << Dot >>) => p \in records

\* C3: find_zone(name) returns the nt_zone_id of the zone whose name equals name, case
\* ignored, whenever the remote holds such a zone; it raises not-found only when the
\* remote holds none.
C3_FindZoneReturnsRegisteredZone ==
    (last.op = "find_zone" /\ Registered(last.input.zone) /\ NoRequestFailed)
    => /\ last.raised = "none"
       /\ last.zone_id = IdOfZone(last.input.zone)

\* C4: for a name N = H.Z with Z a registered zone (N with or without one trailing
\* separator), hostname_to_name_zone(N) returns (H, Z), Z being the longest suffix of N
\* that is a registered zone.
C4_SplitsHostAndLongestZone ==
    ( /\ last.op = "hostname_to_name_zone"
      /\ last.input.hostname \in { host_example_com, host_example_com \o << Dot >> }
      /\ Registered(example_com)
      /\ NoRequestFailed )
    => /\ last.raised = "none"
       /\ last.name = << "h" >>
       /\ last.zone = example_com

\* C5: for a name none of whose suffixes is a registered zone, hostname_to_name_zone
\* raises nothing and returns an empty zone with the whole name as host label.
C5_UnregisteredNameIsSoftFailure ==
    ( /\ last.op = "hostname_to_name_zone"
      /\ last.input.hostname = host_unregistered
      /\ ~Registered(host_unregistered) /\ ~Registered(<< "x" >>)
      /\ NoRequestFailed )
    => /\ last.raised = "none"
       /\ last.zone = << >>
       /\ last.name = host_unregistered

\* C6: delete_record_from_zone, when no record of the given type and name is in the
\* zone, returns none and sends no delete_zone_record request; the remote records are
\* unchanged.
C6_NoMatchReturnsNone ==
    ( /\ last.op = "delete_record_from_zone"
      /\ Registered(last.input.zone)
      /\ NoRequestFailed
      /\ MatchedBefore(last.input.zone, last.input.record, last.input.record_type) = {} )
    => /\ last.raised = "none"
       /\ last.record = NoRecord
       /\ RequestsTo(last.rpcs, "delete_zone_record") = << >>
       /\ records = last.before.records

\* C7: delete_record_from_zone, when two or more records match, returns none, sends no
\* delete_zone_record request, deletes none of them and logs exactly one warning.
C7_AmbiguousMatchReturnsNone ==
    ( /\ last.op = "delete_record_from_zone"
      /\ Registered(last.input.zone)
      /\ NoRequestFailed
      /\ Cardinality(MatchedBefore(last.input.zone, last.input.record,
                                   last.input.record_type)) >= 2 )
    => /\ last.raised = "none"
       /\ last.record = NoRecord
       /\ RequestsTo(last.rpcs, "delete_zone_record") = << >>
       /\ records = last.before.records
       /\ last.warnings = 1

\* C8: delete_record_from_zone, when exactly one record matches, sends exactly one
\* delete_zone_record request, carrying that record's nt_zone_record_id, and returns the
\* record as the search found it.
C8_UniqueMatchDeleted ==
    ( /\ last.op = "delete_record_from_zone"
      /\ Registered(last.input.zone)
      /\ NoRequestFailed
      /\ Cardinality(MatchedBefore(last.input.zone, last.input.record,
                                   last.input.record_type)) = 1 )
    => \A r \in MatchedBefore(last.input.zone, last.input.record,
                              last.input.record_type) :
           /\ last.raised = "none"
           /\ last.record = r
           /\ Len(RequestsTo(last.rpcs, "delete_zone_record")) = 1
           /\ RequestsTo(last.rpcs, "delete_zone_record")[1].nt_zone_record_id =
                  r.nt_zone_record_id

\* C9: add_forward_and_reverse_records(H.Z, a.b.c.d, ttl), Z and c.b.a.in-addr.arpa being
\* registered zones, sends exactly two new_zone_record requests: first an A record named
\* H in zone Z with address a.b.c.d, then a PTR record named d in zone c.b.a.in-addr.arpa
\* with address H.Z followed by '.'; both carry ttl.
C9_AddCreatesForwardThenReverse ==
    ( /\ last.op = "add_forward_and_reverse_records"
      /\ last.input.hostname = host_example_com
      /\ last.input.ip = ip_1_2_3_4
      /\ Registered(example_com) /\ Registered(arpa_3_2_1)
      /\ NoRequestFailed )
    => /\ last.raised = "none"
       /\ Len(RequestsTo(last.rpcs, "new_zone_record")) = 2
       /\ LET forward == RequestsTo(last.rpcs, "new_zone_record")[1]
              reverse == RequestsTo(last.rpcs, "new_zone_record")[2]
          IN  /\ forward.nt_zone_id = IdOfZone(example_com)
              /\ forward.name = << "h" >>
              /\ forward.type = "A"
              /\ forward.address = ip_1_2_3_4
              /\ forward.ttl = last.input.ttl
              /\ reverse.nt_zone_id = IdOfZone(arpa_3_2_1)
              /\ reverse.name = << "4" >>
              /\ reverse.type = "PTR"
              /\ reverse.address = host_example_com \o << Dot >>
              /\ reverse.ttl = last.input.ttl

AddOperations ==
    { "add_forward_and_reverse_records", "add_forward_record", "add_reverse_record" }

\* the addresses tried that are no IPv4 address in dotted-quad syntax
MalformedIpAddrs == { ip_1_2_3, ip_1_2_3_256, ip_1_2_3_x }

\* hostname or ip is missing, or ip is no IPv4 address
BadAddInput ==
    \/ last.input.hostname \in { None, << >> }
    \/ last.input.ip \in { None, << >> }
    \/ last.input.ip \in MalformedIpAddrs

\* C10: the three add operations, called without hostname, without ip or with an ip
\* that is no valid IPv4 address, return without raising and send no request at all;
\* the client and the remote records are unchanged.
C10_BadAddInputIsSilentNoOp ==
    (last.op \in AddOperations /\ BadAddInput)
    => /\ last.raised = "none"
       /\ last.rpcs = << >>
       /\ NothingChanged

\* each add operation has returned from a call with a hostname and a malformed ip
C10_Witness ==
    /\ last.op = "add_reverse_record"
    /\ last.input.hostname = host_example_com
    /\ last.input.ip = ip_1_2_3_256
    /\ last.raised = "none"

\* C11: delete_forward_and_reverse_records called with an ip address only, when exactly
\* one PTR record exists at the reverse name of that address, deletes that record and
\* completes without raising.
C11_ReverseOnlyDeleteCompletes ==
    ( /\ last.op = "delete_forward_and_reverse_records"
      /\ last.input.hostname = None
      /\ last.input.ip = ip_1_2_3_4
      /\ NoRequestFailed
      /\ Registered(arpa_3_2_1)
      /\ Cardinality(MatchedBefore(arpa_3_2_1, << "4" >>, "PTR")) = 1 )
    => /\ last.raised = "none"
       /\ \A p \in MatchedBefore(arpa_3_2_1, << "4" >>, "PTR") : p \notin records

\* the time since the previous call attempt when the last operation made its first call
SecondsIdle == last.before.now - last.before.activity_timestamp

\* the number of login requests the last operation sent
Logins == Len(RequestsTo(last.rpcs, "login"))

\* C12: of an operation that sends a call through _make_api_call: when the time since
\* the previous call attempt exceeds 120, exactly one login request is sent, it is the
\* first request, and the intended call follows only after it has succeeded; when that
\* time is at most 120 and a session token is held, no login request is sent.
C12_LoginExactlyWhenIdle ==
    last.rpcs # << >> =>
        /\ SecondsIdle > IdleLimit =>
              /\ Logins = 1
              /\ last.rpcs[1].method = "login"
              /\ Len(last.rpcs) > 1 => last.failed # 1
        /\ (SecondsIdle <= IdleLimit /\ last.before.nt_user_session # NoId) =>
              Logins = 0

\* a call made more than 120 after the previous one while a token was held: the client
\* logged in again and then sent the intended call
C12_Witness ==
    /\ last.op = "__getattr__"
    /\ SecondsIdle > IdleLimit
    /\ last.before.nt_user_session # NoId
    /\ Len(last.rpcs) = 2
    /\ last.rpcs[1].method = "login"
    /\ last.rpcs[2].method = last.input.method

\* C13: every request the client sends, login excepted, carries as nt_user_session the
\* client's session token, and that token is the one the latest successful login
\* returned: it is never absent.
C13_EveryCallCarriesTheSession ==
    \A i \in 1..Len(last.rpcs) :
        last.rpcs[i].method # "login" =>
            /\ last.rpcs[i].arguments.nt_user_session = nt_user_session
            /\ nt_user_session # NoId
            /\ nt_user_session = last_login

\* C14: when the login request sent to reacquire the session is answered with a
\* non-success status, the operation ends with that failure raised, the login is the
\* last request it sent (the intended request is never sent) and it is the only login.
C14_FailedLoginPropagates ==
    (last.failed # 0 /\ last.rpcs[last.failed].method = "login") =>
        /\ last.raised = "RequestFailed"
        /\ Len(last.rpcs) = last.failed
        /\ Logins = 1

\* a call made after more than 120 idle, with a token held, whose login failed
C14_Witness ==
    /\ last.op = "__getattr__"
    /\ SecondsIdle > IdleLimit
    /\ last.before.nt_user_session # NoId
    /\ last.failed = 1
    /\ last.rpcs[1].method = "login"
    /\ last.raised = "RequestFailed"

\* the last call was find_zone, made on the result of a find_zone call with the same
\* name less than 600 before, the name is that of a registered zone and the remote
\* failed no request of either call
TwoLookupsWithinExpiry ==
    /\ last.op = "find_zone"
    /\ last.previous.op = "find_zone"
    /\ last.previous.input.zone = last.input.zone
    /\ last.before.now - last.previous.now < CacheExpire
    /\ Registered(last.input.zone)
    /\ NoRequestFailed /\ last.previous.raised # "RequestFailed"

\* C15: two find_zone calls with the same zone name less than 600 apart send at most
\* one get_group_zones request in total, and the second call returns the identifier
\* the first returned.
C15_SecondLookupFromCache ==
    TwoLookupsWithinExpiry =>
        /\ Len(RequestsTo(last.previous.rpcs, "get_group_zones"))
             + Len(RequestsTo(last.rpcs, "get_group_zones")) <= 1
        /\ last.previous.raised = "none"
        /\ last.raised = "none"
        /\ last.zone_id = last.previous.zone_id

\* C16: find_zone raises not-found only after it has searched: it has sent at least one
\* get_group_zones request, the first with start 0 and limit 255, and each further
\* one with start = page * limit of the page before it.
C16_NotFoundOnlyAfterSearching ==
    (last.op = "find_zone" /\ last.raised = "ZoneNotFound") =>
        /\ RequestsTo(last.rpcs, "get_group_zones") # << >>
        /\ RequestsTo(last.rpcs, "get_group_zones")[1].start = 0
        /\ \A i \in 1..Len(RequestsTo(last.rpcs, "get_group_zones")) :
              /\ RequestsTo(last.rpcs, "get_group_zones")[i].limit = SearchLimit
              /\ RequestsTo(last.rpcs, "get_group_zones")[i].start = (i - 1) * SearchLimit

C18_MissingReverseIsTolerated ==
    ( /\ last.op = "delete_forward_and_reverse_records"
      /\ last.input.hostname = host_example_com
      /\ ~Truthy(last.input.ip)
      /\ NoRequestFailed
      /\ Registered(example_com) /\ Registered(arpa_3_2_1)
      /\ Cardinality(MatchedBefore(example_com, << "h" >>, "A")) = 1
      /\ MatchedBefore(arpa_3_2_1, << "4" >>, "PTR") = {} )
    => /\ last.raised = "none"
       /\ records = last.before.records \ MatchedBefore(example_com, << "h" >>, "A")
       /\ Len(RequestsTo(last.rpcs, "delete_zone_record")) = 1

\* the A records a hostname of AddHostnames names: host label "h" of zone e.c for
\* h.e.c, the empty label of zone e.c for e.c itself
ForwardRecordsOf(hostname, recs) ==
    { r \in recs : /\ r.type = "A"
                   /\ r.nt_zone_id = IdOfZone(example_com)
                   /\ r.name = IF RStrip(hostname) = example_com THEN << >> ELSE << "h" >> }

\* the PTR records at the reverse name of 1.2.3.4
ReverseRecordsOf(recs) ==
    { r \in recs : r.type = "PTR" /\ r.name = << "4" >> /\ r.nt_zone_id = IdOfZone(arpa_3_2_1) }

\* the last two calls were add_forward_and_reverse_records(h, ip) and then
\* delete_forward_and_reverse_records(hostname=h), for a hostname h in a registered zone
\* and the valid address 1.2.3.4 whose reverse zone is registered, begun with no A
\* record for h and no PTR record for the address, and the remote failed no request
RoundTrip ==
    /\ last.op = "delete_forward_and_reverse_records"
    /\ last.previous.op = "add_forward_and_reverse_records"
    /\ last.input.hostname = last.previous.input.hostname
    /\ last.input.hostname \in { host_example_com, example_com \o << Dot >> }
    /\ last.previous.input.ip = ip_1_2_3_4
    /\ Registered(example_com) /\ Registered(arpa_3_2_1)
    /\ ForwardRecordsOf(last.input.hostname, last.previous.records) = {}
    /\ ReverseRecordsOf(last.previous.records) = {}
    /\ NoRequestFailed /\ last.previous.raised # "RequestFailed"

=============================================================================
